---- MODULE Spec2Model ----
(***************************************************************************)
(* Profile-mutation routes of logto core:                                  *)
(*   packages/core/src/routes/session/profile.ts  (/session/profile/...)   *)
(*   packages/core/src/routes/profile/index.ts    (/profile, /profile/...) *)
(* Each request is a process that runs its handler one await at a time, so *)
(* that handlers of concurrent requests interleave at their awaits.        *)
(***************************************************************************)
EXTENDS Integers, Sequences, FiniteSets, TLC

VARIABLES users, verificationRecords, req, started

vars == <<users, verificationRecords, req, started>>

(* ------------------------------ bounds --------------------------------- *)

\* Total number of requests received in one behaviour.
MaxRequests == 2

Slots == {"q1", "q2"}

(* ------------------------------ values --------------------------------- *)

Null == "null"
Undefined == "undefined"

UserIds == {"u1", "u2"}
Emails == {"a@x.com", "b@x.com"}
Phones == {"111"}
Passwords == {"p1", "p2"}
Salts == {"s1", "s2"}
Names == {"Ann"}
Targets == {"github", "google"}
RecordIds == {"r1", "r4", "r5", "r6"}

ScopeProfile == "profile"
ScopeEmail == "email"
ScopeAddress == "address"

(* ------------------------- password hashing ---------------------------- *)

NoHash == "null"

\* encryptUserPassword(password): an argon2i hash, which embeds a fresh salt.
Argon2Hash(password, salt) ==
    CASE password = "p1" /\ salt = "s1" -> "$argon2i$s1$p1"
      [] password = "p1" /\ salt = "s2" -> "$argon2i$s2$p1"
      [] password = "p2" /\ salt = "s1" -> "$argon2i$s1$p2"
      [] password = "p2" /\ salt = "s2" -> "$argon2i$s2$p2"

EncryptUserPassword(password, salt) ==
    [passwordEncrypted |-> Argon2Hash(password, salt),
     passwordEncryptionMethod |-> "Argon2i"]

\* argon2Verify({password, hash}): the hash is one of this password, under
\* the salt the hash carries.
Argon2Verify(password, hash) == \E salt \in Salts : Argon2Hash(password, salt) = hash

(* ------------------------------ the store ------------------------------ *)

NoIdentities == [t \in {} |-> Null]

BlankRow ==
    [username |-> Null, primaryEmail |-> Null, primaryPhone |-> Null,
     passwordEncrypted |-> NoHash, passwordEncryptionMethod |-> Null,
     name |-> Null, avatar |-> Null, customData |-> Null,
     address |-> Null, nickname |-> Null,
     identities |-> NoIdentities]

Columns == DOMAIN BlankRow

\* The `set` argument of updateUserById, the keys it defines and their values,
\* with the jsonbMode argument, which is 'merge' unless the caller passes one.
NoSet == [keys |-> {}, row |-> BlankRow, jsonbMode |-> "merge"]

With(set, key, value) ==
    [set EXCEPT !.keys = @ \cup {key}, !.row = [set.row EXCEPT ![key] = value]]

\* updateUserById(id, set, 'replace')
Replace(set) == [set EXCEPT !.jsonbMode = "replace"]

\* A jsonb column under 'merge': the keys of the new object overwrite, the
\* other keys of the stored object stay.
MergeJsonb(stored, new) ==
    [t \in (DOMAIN stored) \cup (DOMAIN new) |->
        IF t \in DOMAIN new THEN new[t] ELSE stored[t]]

\* A key whose value is undefined is no key of the object.
WithDefined(set, key, value) == IF value = Undefined THEN set ELSE With(set, key, value)

\* The row of a user after the update: the keys of `set` overwrite.
ApplySet(user, set) ==
    [c \in Columns |->
        IF c \notin set.keys THEN user[c]
        ELSE IF c = "identities" /\ set.jsonbMode = "merge"
        THEN MergeJsonb(user.identities, set.row.identities)
        ELSE set.row[c]]

\* Some other row holds the same non-null username, email or phone.
Clashes(usrs, id, row) ==
    \E o \in UserIds \ {id} :
        \/ row.username # Null /\ usrs[o].username = row.username
        \/ row.primaryEmail # Null /\ usrs[o].primaryEmail = row.primaryEmail
        \/ row.primaryPhone # Null /\ usrs[o].primaryPhone = row.primaryPhone

\* The store accepts a row that duplicates an identifier of another row.
UpdateRejected_NoUniqueIndex(usrs, id, set) == id \notin UserIds

\* updateUserById throws: no such row, or a unique index is violated.
UpdateRejected(usrs, id, set) ==
    \/ id \notin UserIds
    \/ Clashes(usrs, id, ApplySet(usrs[id], set))

\* updateUserById(id, set): all keys of `set` are written in one statement.
UpdateUserById(usrs, id, set) ==
    [usrs EXCEPT ![id] = ApplySet(usrs[id], set)]

\* deleteUserIdentity(userId, target): drops the one key from identities.
DeleteUserIdentity(usrs, id, target) ==
    [usrs EXCEPT ![id].identities =
        [t \in (DOMAIN usrs[id].identities) \ {target} |-> usrs[id].identities[t]]]

\* has(identities, target)
Has(identities, target) == target \in DOMAIN identities

\* { ...identities, [target]: { userId: socialUserInfo.id, ... } }
MergeIdentity(identities, target, socialId) ==
    [t \in (DOMAIN identities) \cup {target} |->
        IF t = target THEN socialId ELSE identities[t]]

(* ------------------------- collision checking -------------------------- *)

\* checkSignUpIdentifierCollision(identifiers, excludeUserId) and
\* checkIdentifierCollision(identifiers, excludeUserId): a user other than
\* excludeUserId holds one of the given identifiers.
IdentifierCollision(usrs, identifiers, excludeUserId) ==
    \E o \in UserIds \ {excludeUserId} :
        \/ identifiers.username # Undefined /\ usrs[o].username = identifiers.username
        \/ identifiers.primaryEmail # Undefined
               /\ usrs[o].primaryEmail = identifiers.primaryEmail
        \/ identifiers.primaryPhone # Undefined
               /\ usrs[o].primaryPhone = identifiers.primaryPhone

NoIdentifiers ==
    [username |-> Undefined, primaryEmail |-> Undefined, primaryPhone |-> Undefined]

(* -------------------------- verification records ----------------------- *)

Missing == "missing"

\* buildUserVerificationRecordById(userId, id): the record with this id owned
\* by userId and not expired, else it throws verification_record.not_found.
RecordFound(records, userId, id) ==
    /\ id \in DOMAIN records
    /\ records[id].userId = userId
    /\ ~records[id].expired

\* verificationRecord.isVerified
IsVerified(record) == record.verified

(* --------------------------- auth contexts ----------------------------- *)

\* provider.Session.get(ctx): the accountId of the session, if any.
SessionGet(auth) == auth.id

\* checkSessionHealth(ctx, provider, verificationTimeout): the accountId of a
\* session verified within the timeout; the callers test the result for falsy.
CheckSessionHealth(auth) == IF auth.id # Null /\ auth.healthy THEN auth.id ELSE Null

\* The auth middleware of a UserRouter: ctx.auth.id is the token's subject.
KoaAuth(auth) == auth.id

\* getScopedProfile(queries, libraries, scopes, userId)
GetScopedProfile(usrs, scopes, userId) ==
    [username |-> IF ScopeProfile \in scopes THEN usrs[userId].username ELSE Undefined,
     name |-> IF ScopeProfile \in scopes THEN usrs[userId].name ELSE Undefined,
     avatar |-> IF ScopeProfile \in scopes THEN usrs[userId].avatar ELSE Undefined,
     nickname |-> IF ScopeProfile \in scopes THEN usrs[userId].nickname ELSE Undefined,
     email |-> IF ScopeEmail \in scopes THEN usrs[userId].primaryEmail ELSE Undefined,
     address |-> IF ScopeAddress \in scopes THEN usrs[userId].address ELSE Undefined]

\* pick(user, ...userInfoSelectFields)
PickUserInfo(user) ==
    [username |-> user.username, primaryEmail |-> user.primaryEmail,
     primaryPhone |-> user.primaryPhone, name |-> user.name,
     avatar |-> user.avatar, customData |-> user.customData,
     identities |-> user.identities]

(* ------------------------------ requests ------------------------------- *)

SessionOps ==
    {"GetSessionProfile", "PatchSessionProfile", "PatchUsername", "PatchPassword",
     "PatchEmail", "DeleteEmail", "PatchPhone", "DeletePhone", "LinkIdentity",
     "UnlinkIdentity"}

ProfileOps == {"GetProfile", "PatchProfile", "PostPassword", "PostPrimaryEmail"}

Ops == SessionOps \cup ProfileOps

\* ctx.guard.body / ctx.guard.params; the keys a route does not take are undefined.
NoBody ==
    [username |-> Undefined, primaryEmail |-> Undefined, primaryPhone |-> Undefined,
     password |-> Undefined, name |-> Undefined, avatar |-> Undefined,
     customData |-> Undefined, profile |-> FALSE,
     address |-> Undefined, nickname |-> Undefined,
     verificationRecordId |-> Undefined,
     newIdentifierVerificationRecordId |-> Undefined,
     target |-> Undefined, connectorOk |-> FALSE, socialId |-> Undefined]

Session(id, healthy) == [id |-> id, healthy |-> healthy, scopes |-> {}]

Token(id, scopes) == [id |-> id, healthy |-> TRUE, scopes |-> scopes]

\* The request bodies the model sends to each route.
BodiesOf(op) ==
    CASE op = "PatchSessionProfile" ->
            {[NoBody EXCEPT !.name = n, !.avatar = "https://x.com/ann.png",
                            !.customData = "{theme}"] : n \in Names}
      [] op = "PatchUsername" ->
            {[NoBody EXCEPT !.username = v] : v \in {"bob", "carol"}}
      [] op = "PatchPassword" -> {[NoBody EXCEPT !.password = p] : p \in Passwords}
      [] op = "PatchEmail" -> {[NoBody EXCEPT !.primaryEmail = e] : e \in Emails}
      [] op = "PatchPhone" -> {[NoBody EXCEPT !.primaryPhone = p] : p \in Phones}
      [] op = "LinkIdentity" ->
            {[NoBody EXCEPT !.target = t, !.connectorOk = TRUE, !.socialId = "g1"] :
                t \in Targets}
            \cup {[NoBody EXCEPT !.target = "google", !.socialId = "g1"]}
      [] op = "UnlinkIdentity" -> {[NoBody EXCEPT !.target = t] : t \in Targets}
      [] op = "PatchProfile" ->
            {[NoBody EXCEPT !.name = "Ann", !.avatar = "https://x.com/ann.png"],
             [NoBody EXCEPT !.name = "Ann", !.username = "carol"],
             [NoBody EXCEPT !.username = "bob"],
             [NoBody EXCEPT !.profile = TRUE, !.nickname = "annie",
                            !.address = "1 Main St"]}
      [] op = "PostPassword" ->
            {[NoBody EXCEPT !.password = p, !.verificationRecordId = r] :
                p \in Passwords, r \in RecordIds \cup {Missing}}
      [] op = "PostPrimaryEmail" ->
            {[NoBody EXCEPT !.primaryEmail = "b@x.com", !.verificationRecordId = r[1],
                            !.newIdentifierVerificationRecordId = r[2]] :
                r \in {<<"r1", "r3">>, <<"r2", "r3">>, <<"r3", "r3">>,
                       <<Missing, "r3">>, <<"r1", "r2">>, <<"r1", Missing>>}}
      [] OTHER -> {NoBody}

\* The auth contexts the model sends to each route.
AuthsOf(op) ==
    CASE op \in {"GetSessionProfile", "PatchSessionProfile", "UnlinkIdentity"} ->
            {Session("u1", TRUE), Session("u2", TRUE), Session(Null, FALSE)}
      [] op \in SessionOps \ {"GetSessionProfile", "PatchSessionProfile",
                              "UnlinkIdentity"} ->
            {Session("u1", TRUE), Session("u2", TRUE), Session("u1", FALSE),
             Session(Null, FALSE)}
      [] op = "PatchProfile" ->
            {Token("u1", {}), Token("u1", {ScopeProfile}),
             Token("u1", {ScopeProfile, ScopeAddress}), Token("u2", {ScopeProfile}),
             Token(Null, {})}
      [] op = "PostPrimaryEmail" ->
            {Token("u1", {ScopeProfile}), Token("u1", {ScopeProfile, ScopeEmail}),
             Token(Null, {})}
      [] OTHER ->
            {Token("u1", {ScopeProfile, ScopeEmail}), Token("u2", {ScopeProfile}),
             Token(Null, {})}

Idle ==
    [op |-> Null, pc |-> "idle", auth |-> [id |-> Null, healthy |-> FALSE, scopes |-> {}],
     body |-> NoBody, local |-> Null, err |-> Null, status |-> 0, hooks |-> <<>>,
     resp |-> Null, phases |-> <<>>]

\* The request fails: the handler throws and nothing after it runs.
Throw(q, code, status) ==
    req' = [req EXCEPT ![q].pc = "done", ![q].err = code, ![q].status = status]

\* The handler passes a phase and suspends at its next await.
Pass(q, pc, phase) ==
    req' = [req EXCEPT ![q].pc = pc, ![q].phases = Append(@, phase)]

\* The handler passes a phase, keeping what it read in a local.
PassWith(q, pc, phase, value) ==
    req' = [req EXCEPT ![q].pc = pc, ![q].phases = Append(@, phase),
                       ![q].local = value]

DataHook(user) == [event |-> "User.Data.Updated", user |-> user]

\* The write of a handler: updateUserById throws, or the row is updated and
\* the handler runs on to `pc` (appending a data hook when `hook` is set, and
\* answering with the picked user when `respond` is set).
Commit(q, set, pc, status, hook, respond) ==
    LET userId == req[q].auth.id
        after == UpdateUserById(users, userId, set)
    IN  IF UpdateRejected(users, userId, set)
        THEN /\ Throw(q, "entity.update_failed", 500)
             /\ UNCHANGED users
        ELSE /\ users' = after
             /\ req' = [req EXCEPT
                    ![q].pc = pc, ![q].status = status,
                    ![q].phases = Append(@, "Committed"),
                    ![q].resp = IF respond THEN PickUserInfo(after[userId]) ELSE @,
                    ![q].hooks = IF hook THEN Append(@, DataHook(after[userId])) ELSE @]

(* --------------------------- Init and Receive -------------------------- *)

InitUsers ==
    {[u1 |-> [BlankRow EXCEPT !.username = "alice", !.primaryEmail = e,
                              !.passwordEncrypted = "$argon2i$s1$p1",
                              !.passwordEncryptionMethod = "Argon2i"],
      u2 |-> [BlankRow EXCEPT !.username = "bob", !.address = "9 Old Rd",
                              !.identities = [t \in {"github"} |-> "g2"]]] :
        e \in {Null, "a@x.com"}}

\* The records the verification flows have made: r1 by u1's password, r2 and
\* r3 by codes sent to two emails, r4 by u2's password, r5 not yet verified,
\* r6 expired.
InitRecords ==
    [r1 |-> [userId |-> "u1", type |-> "password", target |-> Null,
             verified |-> TRUE, expired |-> FALSE, consumed |-> FALSE],
     r2 |-> [userId |-> "u1", type |-> "emailCode", target |-> "a@x.com",
             verified |-> TRUE, expired |-> FALSE, consumed |-> FALSE],
     r3 |-> [userId |-> "u1", type |-> "emailCode", target |-> "b@x.com",
             verified |-> TRUE, expired |-> FALSE, consumed |-> FALSE],
     r4 |-> [userId |-> "u2", type |-> "password", target |-> Null,
             verified |-> TRUE, expired |-> FALSE, consumed |-> FALSE],
     r5 |-> [userId |-> "u1", type |-> "password", target |-> Null,
             verified |-> FALSE, expired |-> FALSE, consumed |-> FALSE],
     r6 |-> [userId |-> "u1", type |-> "password", target |-> Null,
             verified |-> TRUE, expired |-> TRUE, consumed |-> FALSE]]

Init ==
    /\ users \in InitUsers
    /\ verificationRecords = InitRecords
    /\ req = [q \in Slots |-> Idle]
    /\ started = 0

\* A request arrives at a route with its auth context and body.
Receive(q) ==
    /\ req[q].pc \in {"idle", "done"}
    \* the slots are alike: the first request takes q1
    /\ q = "q1" \/ req["q1"].pc # "idle"
    /\ started < MaxRequests
    /\ \E op \in Ops : \E auth \in AuthsOf(op) : \E body \in BodiesOf(op) :
          req' = [req EXCEPT ![q] = [Idle EXCEPT !.op = op, !.pc = "start",
                                                 !.auth = auth, !.body = body]]
    /\ started' = started + 1
    /\ UNCHANGED <<users, verificationRecords>>

At(q, op, pc) == req[q].op = op /\ req[q].pc = pc

(* ------------------- routes/session/profile.ts ------------------------- *)

\* The handler goes on without testing the user id.
AssertUserId_Skipped(q, userId) ==
    /\ Pass(q, "authed", "Authenticated")
    /\ UNCHANGED users

\* assertThat(userId, new RequestError({ code: 'auth.unauthorized', status: 401 }))
AssertUserId(q, userId) ==
    /\ IF userId = Null
       THEN Throw(q, "auth.unauthorized", 401)
       ELSE Pass(q, "authed", "Authenticated")
    /\ UNCHANGED users

\* GET /session/profile
GetSessionProfile(q) ==
    /\ \/ /\ At(q, "GetSessionProfile", "start")
          /\ AssertUserId(q, SessionGet(req[q].auth))
       \/ /\ At(q, "GetSessionProfile", "authed")
          /\ req' = [req EXCEPT ![q].pc = "done", ![q].status = 200,
                                ![q].resp = PickUserInfo(users[req[q].auth.id])]
          /\ UNCHANGED users
    /\ UNCHANGED <<verificationRecords, started>>

\* PATCH /session/profile
PatchSessionProfile(q) ==
    /\ \/ /\ At(q, "PatchSessionProfile", "start")
          /\ AssertUserId(q, SessionGet(req[q].auth))
       \/ /\ At(q, "PatchSessionProfile", "authed")
          /\ Commit(q, WithDefined(WithDefined(WithDefined(NoSet,
                           "name", req[q].body.name),
                           "avatar", req[q].body.avatar),
                           "customData", req[q].body.customData),
                    "done", 204, FALSE, FALSE)
    /\ UNCHANGED <<verificationRecords, started>>

\* The collision check of a handler, before its write.
CheckCollision(q, identifiers, excludeUserId) ==
    /\ IF IdentifierCollision(users, identifiers, excludeUserId)
       THEN Throw(q, "IdentifierExists", 422)
       ELSE Pass(q, "checked", "CollisionChecked")
    /\ UNCHANGED users

\* The username handler writes without the collision check.
PatchUsername_NoCollisionCheck(q) ==
    /\ \/ /\ At(q, "PatchUsername", "start")
          /\ AssertUserId(q, CheckSessionHealth(req[q].auth))
       \/ /\ At(q, "PatchUsername", "authed")
          /\ Pass(q, "checked", "CollisionChecked")
          /\ UNCHANGED users
       \/ /\ At(q, "PatchUsername", "checked")
          /\ Commit(q, Replace(With(NoSet, "username", req[q].body.username)),
                    "done", 200, FALSE, TRUE)
    /\ UNCHANGED <<verificationRecords, started>>

\* PATCH /session/profile/username
PatchUsername(q) ==
    /\ \/ /\ At(q, "PatchUsername", "start")
          /\ AssertUserId(q, CheckSessionHealth(req[q].auth))
       \/ /\ At(q, "PatchUsername", "authed")
          /\ CheckCollision(q, [NoIdentifiers EXCEPT !.username = req[q].body.username],
                            req[q].auth.id)
       \/ /\ At(q, "PatchUsername", "checked")
          /\ Commit(q, Replace(With(NoSet, "username", req[q].body.username)),
                    "done", 200, FALSE, TRUE)
    /\ UNCHANGED <<verificationRecords, started>>

\* PATCH /session/profile/password
PatchPassword(q) ==
    /\ \/ /\ At(q, "PatchPassword", "start")
          /\ AssertUserId(q, CheckSessionHealth(req[q].auth))
       \/ /\ At(q, "PatchPassword", "authed")
          /\ LET oldPasswordEncrypted == users[req[q].auth.id].passwordEncrypted
             IN  IF oldPasswordEncrypted # NoHash
                    /\ Argon2Verify(req[q].body.password, oldPasswordEncrypted)
                 THEN Throw(q, "user.same_password", 422)
                 ELSE Pass(q, "checked", "Checked")
          /\ UNCHANGED users
       \/ /\ At(q, "PatchPassword", "checked")
          /\ \E salt \in Salts :
                LET enc == EncryptUserPassword(req[q].body.password, salt)
                IN  Commit(q, With(With(NoSet, "passwordEncrypted", enc.passwordEncrypted),
                                   "passwordEncryptionMethod",
                                   enc.passwordEncryptionMethod), "done", 204, FALSE, FALSE)
    /\ UNCHANGED <<verificationRecords, started>>

\* PATCH /session/profile/email
PatchEmail(q) ==
    /\ \/ /\ At(q, "PatchEmail", "start")
          /\ AssertUserId(q, CheckSessionHealth(req[q].auth))
       \/ /\ At(q, "PatchEmail", "authed")
          /\ CheckCollision(q,
                 [NoIdentifiers EXCEPT !.primaryEmail = req[q].body.primaryEmail],
                 Undefined)
       \/ /\ At(q, "PatchEmail", "checked")
          /\ Commit(q, With(NoSet, "primaryEmail", req[q].body.primaryEmail), "done", 204, FALSE, FALSE)
    /\ UNCHANGED <<verificationRecords, started>>

\* The delete handler goes on without testing the column.
AssertPresent_Skipped(q, value, code) ==
    /\ Pass(q, "checked", "Checked")
    /\ UNCHANGED users

\* The read of a delete handler: the column must hold a value.
AssertPresent(q, value, code) ==
    /\ IF value = Null THEN Throw(q, code, 422) ELSE Pass(q, "checked", "Checked")
    /\ UNCHANGED users

\* DELETE /session/profile/email
DeleteEmail(q) ==
    /\ \/ /\ At(q, "DeleteEmail", "start")
          /\ AssertUserId(q, CheckSessionHealth(req[q].auth))
       \/ /\ At(q, "DeleteEmail", "authed")
          /\ AssertPresent(q, users[req[q].auth.id].primaryEmail, "user.email_not_exists")
       \/ /\ At(q, "DeleteEmail", "checked")
          /\ Commit(q, With(NoSet, "primaryEmail", Null), "done", 204, FALSE, FALSE)
    /\ UNCHANGED <<verificationRecords, started>>

\* PATCH /session/profile/phone
PatchPhone(q) ==
    /\ \/ /\ At(q, "PatchPhone", "start")
          /\ AssertUserId(q, CheckSessionHealth(req[q].auth))
       \/ /\ At(q, "PatchPhone", "authed")
          /\ CheckCollision(q,
                 [NoIdentifiers EXCEPT !.primaryPhone = req[q].body.primaryPhone],
                 Undefined)
       \/ /\ At(q, "PatchPhone", "checked")
          /\ Commit(q, With(NoSet, "primaryPhone", req[q].body.primaryPhone), "done", 204, FALSE, FALSE)
    /\ UNCHANGED <<verificationRecords, started>>

\* DELETE /session/profile/phone
DeletePhone(q) ==
    /\ \/ /\ At(q, "DeletePhone", "start")
          /\ AssertUserId(q, CheckSessionHealth(req[q].auth))
       \/ /\ At(q, "DeletePhone", "authed")
          /\ AssertPresent(q, users[req[q].auth.id].primaryPhone, "user.phone_not_exists")
       \/ /\ At(q, "DeletePhone", "checked")
          /\ Commit(q, With(NoSet, "primaryPhone", Null), "done", 204, FALSE, FALSE)
    /\ UNCHANGED <<verificationRecords, started>>

\* PATCH /session/profile/identities; body.target stands for the target of
\* the connector that body.connectorId names.
\* The link handler stores the target before the connector exchange has
\* answered, so a failed exchange leaves an entry behind.
LinkIdentity_WriteBeforeExchange(q) ==
    /\ \/ /\ At(q, "LinkIdentity", "start")
          /\ AssertUserId(q, CheckSessionHealth(req[q].auth))
       \/ /\ At(q, "LinkIdentity", "authed")
          /\ IF req[q].body.connectorOk
             THEN Pass(q, "exchanged", "Verified") /\ UNCHANGED users
             ELSE /\ Throw(q, "connector.general", 400)
                  /\ users' = UpdateUserById(users, req[q].auth.id,
                                With(NoSet, "identities",
                                     MergeIdentity(NoIdentities, req[q].body.target,
                                                   "pending")))
       \/ /\ At(q, "LinkIdentity", "exchanged")
          /\ PassWith(q, "checked", "Checked", users[req[q].auth.id].identities)
          /\ UNCHANGED users
       \/ /\ At(q, "LinkIdentity", "checked")
          /\ Commit(q, With(NoSet, "identities",
                            MergeIdentity(req[q].local, req[q].body.target,
                                          req[q].body.socialId)), "done", 204, FALSE, FALSE)
    /\ UNCHANGED <<verificationRecords, started>>

LinkIdentity(q) ==
    /\ \/ /\ At(q, "LinkIdentity", "start")
          /\ AssertUserId(q, CheckSessionHealth(req[q].auth))
       \/ /\ At(q, "LinkIdentity", "authed")
          \* getLogtoConnectorById, getUserInfoByAuthCode: the exchange may throw
          /\ IF req[q].body.connectorOk
             THEN Pass(q, "exchanged", "Verified")
             ELSE Throw(q, "connector.general", 400)
          /\ UNCHANGED users
       \/ /\ At(q, "LinkIdentity", "exchanged")
          \* const { identities } = await findUserById(userId)
          /\ PassWith(q, "checked", "Checked", users[req[q].auth.id].identities)
          /\ UNCHANGED users
       \/ /\ At(q, "LinkIdentity", "checked")
          /\ Commit(q, With(NoSet, "identities",
                            MergeIdentity(req[q].local, req[q].body.target,
                                          req[q].body.socialId)), "done", 204, FALSE, FALSE)
    /\ UNCHANGED <<verificationRecords, started>>

\* The unlink handler goes on without testing that the target is linked.
AssertLinked_Skipped(q, identities, target) ==
    /\ Pass(q, "checked", "Checked")
    /\ UNCHANGED users

\* assertThat(has(identities, target), ... 'user.identity_not_exists', 404)
AssertLinked(q, identities, target) ==
    /\ IF Has(identities, target)
       THEN Pass(q, "checked", "Checked")
       ELSE Throw(q, "user.identity_not_exists", 404)
    /\ UNCHANGED users

\* DELETE /session/profile/identities/:target
UnlinkIdentity(q) ==
    /\ \/ /\ At(q, "UnlinkIdentity", "start")
          /\ AssertUserId(q, SessionGet(req[q].auth))
       \/ /\ At(q, "UnlinkIdentity", "authed")
          /\ AssertLinked(q, users[req[q].auth.id].identities, req[q].body.target)
       \/ /\ At(q, "UnlinkIdentity", "checked")
          /\ users' = DeleteUserIdentity(users, req[q].auth.id, req[q].body.target)
          /\ req' = [req EXCEPT ![q].pc = "done", ![q].status = 204,
                                ![q].phases = Append(@, "Committed")]
    /\ UNCHANGED <<verificationRecords, started>>

(* ----------------------- routes/profile/index.ts ----------------------- *)

\* The auth middleware of the router: a request without a subject is rejected.
RequireAuth(q) ==
    /\ IF KoaAuth(req[q].auth) = Null
       THEN Throw(q, "auth.unauthorized", 401)
       ELSE Pass(q, "authed", "Authenticated")
    /\ UNCHANGED users

\* GET /profile
GetProfile(q) ==
    /\ \/ /\ At(q, "GetProfile", "start")
          /\ RequireAuth(q)
       \/ /\ At(q, "GetProfile", "authed")
          /\ req' = [req EXCEPT ![q].pc = "done", ![q].status = 200,
                        ![q].resp = GetScopedProfile(users, req[q].auth.scopes,
                                                     req[q].auth.id)]
          /\ UNCHANGED users
    /\ UNCHANGED <<verificationRecords, started>>

\* The address is written whatever the scopes of the token.
PatchProfileSet_KeepsAddress(body, scopes) ==
    LET base == WithDefined(WithDefined(WithDefined(NoSet, "name", body.name),
                                        "avatar", body.avatar),
                            "username", body.username)
        rest == WithDefined(base, "nickname", body.nickname)
    IN  IF body.profile THEN WithDefined(rest, "address", body.address) ELSE base

\* The `set` of PATCH /profile: name, username, and the profile without the
\* address unless the address scope is held.
PatchProfileSet(body, scopes) ==
    LET base == WithDefined(WithDefined(WithDefined(NoSet, "name", body.name),
                                        "avatar", body.avatar),
                            "username", body.username)
        rest == WithDefined(base, "nickname", body.nickname)
    IN  IF body.profile
        THEN IF ScopeAddress \in scopes
             THEN WithDefined(rest, "address", body.address)
             ELSE rest
        ELSE base

\* PATCH /profile
PatchProfile(q) ==
    /\ \/ /\ At(q, "PatchProfile", "start")
          /\ RequireAuth(q)
       \/ /\ At(q, "PatchProfile", "authed")
          /\ IF ScopeProfile \notin req[q].auth.scopes
             THEN Throw(q, "auth.unauthorized", 400) /\ UNCHANGED users
             ELSE IF req[q].body.username # Undefined
             THEN CheckCollision(q,
                      [NoIdentifiers EXCEPT !.username = req[q].body.username],
                      req[q].auth.id)
             ELSE Pass(q, "checked", "NoIdentifier") /\ UNCHANGED users
       \/ /\ At(q, "PatchProfile", "checked")
          /\ Commit(q, PatchProfileSet(req[q].body, req[q].auth.scopes),
                    "written", 0, TRUE, FALSE)
       \/ /\ At(q, "PatchProfile", "written")
          /\ req' = [req EXCEPT ![q].pc = "done", ![q].status = 200,
                        ![q].resp = GetScopedProfile(users, req[q].auth.scopes,
                                                     req[q].auth.id)]
          /\ UNCHANGED users
    /\ UNCHANGED <<verificationRecords, started>>

\* buildUserVerificationRecordById and assertThat(verificationRecord.isVerified)
VerifyRecord(q, id) ==
    /\ IF RecordFound(verificationRecords, req[q].auth.id, id)
          /\ IsVerified(verificationRecords[id])
       THEN PassWith(q, "verified", "Verified", id)
       ELSE Throw(q, "verification_record.not_found", 400)
    /\ UNCHANGED users

\* POST /profile/password
PostPassword(q) ==
    /\ \/ /\ At(q, "PostPassword", "start")
          /\ RequireAuth(q)
       \/ /\ At(q, "PostPassword", "authed")
          /\ VerifyRecord(q, req[q].body.verificationRecordId)
       \/ /\ At(q, "PostPassword", "verified")
          /\ \E salt \in Salts :
                LET enc == EncryptUserPassword(req[q].body.password, salt)
                IN  Commit(q, With(With(NoSet, "passwordEncrypted", enc.passwordEncrypted),
                                   "passwordEncryptionMethod",
                                   enc.passwordEncryptionMethod),
                           "done", 204, TRUE, FALSE)
    /\ UNCHANGED <<verificationRecords, started>>

(* ------------- POST /profile/primary-email (from its tests) ------------ *)

\* The first record grants the sensitive permission: the subject's own verified
\* record, made by password or by a code sent to the subject's current email.
SensitivePermission(records, usrs, userId, id) ==
    /\ RecordFound(records, userId, id)
    /\ IsVerified(records[id])
    /\ \/ records[id].type = "password"
       \/ /\ records[id].type = "emailCode"
          /\ usrs[userId].primaryEmail # Null
          /\ records[id].target = usrs[userId].primaryEmail

\* The second record is accepted whatever email it proves.
NewIdentifierVerified_AnyTarget(records, userId, id, email) ==
    /\ RecordFound(records, userId, id)
    /\ IsVerified(records[id])

\* The second record proves control of the new email.
NewIdentifierVerified(records, userId, id, email) ==
    /\ RecordFound(records, userId, id)
    /\ IsVerified(records[id])
    /\ records[id].type = "emailCode"
    /\ records[id].target = email

\* POST /profile/primary-email
PostPrimaryEmail(q) ==
    /\ \/ /\ At(q, "PostPrimaryEmail", "start")
          /\ RequireAuth(q)
       \/ /\ At(q, "PostPrimaryEmail", "authed")
          /\ IF ~({ScopeProfile, ScopeEmail} \subseteq req[q].auth.scopes)
             THEN Throw(q, "auth.unauthorized", 400)
             ELSE IF ~SensitivePermission(verificationRecords, users, req[q].auth.id,
                                          req[q].body.verificationRecordId)
             THEN Throw(q, "verification_record.permission_denied", 403)
             ELSE PassWith(q, "permitted", "Verified", req[q].body.verificationRecordId)
          /\ UNCHANGED users
       \/ /\ At(q, "PostPrimaryEmail", "permitted")
          /\ IF NewIdentifierVerified(verificationRecords, req[q].auth.id,
                                      req[q].body.newIdentifierVerificationRecordId,
                                      req[q].body.primaryEmail)
             THEN Pass(q, "verified", "Verified")
             ELSE Throw(q, "verification_record.not_found", 400)
          /\ UNCHANGED users
       \/ /\ At(q, "PostPrimaryEmail", "verified")
          /\ CheckCollision(q,
                 [NoIdentifiers EXCEPT !.primaryEmail = req[q].body.primaryEmail],
                 req[q].auth.id)
       \/ /\ At(q, "PostPrimaryEmail", "checked")
          /\ Commit(q, With(NoSet, "primaryEmail", req[q].body.primaryEmail),
                    "done", 204, TRUE, FALSE)
    /\ UNCHANGED <<verificationRecords, started>>

(* ------------------------------ the system ----------------------------- *)

Next ==
    \E q \in Slots :
        \/ Receive(q)
        \/ GetSessionProfile(q)
        \/ PatchSessionProfile(q)
        \/ PatchUsername(q)
        \/ PatchPassword(q)
        \/ PatchEmail(q)
        \/ DeleteEmail(q)
        \/ PatchPhone(q)
        \/ DeletePhone(q)
        \/ LinkIdentity(q)
        \/ UnlinkIdentity(q)
        \/ GetProfile(q)
        \/ PatchProfile(q)
        \/ PostPassword(q)
        \/ PostPrimaryEmail(q)

Spec == Init /\ [][Next]_vars

(* ------------------------------ properties ----------------------------- *)

Done(q) == req[q].pc = "done"

Committed(q) == \E i \in 1..Len(req[q].phases) : req[q].phases[i] = "Committed"

\* The request of slot q takes a step of its handler.
Stepped(q) == req[q].pc \notin {"idle", "done"} /\ req'[q].pc # req[q].pc

IdentifierColumns == {"username", "primaryEmail", "primaryPhone"}

\* The identifier column a request sets, and the value it sets it to.
SetsIdentifier(q, col) ==
    /\ req[q].op \in {"PatchUsername", "PatchEmail", "PatchPhone", "PatchProfile",
                      "PostPrimaryEmail"}
    /\ req[q].body[col] # Undefined

\* Another user than the subject of q holds the value q sets column col to.
HeldByOther(q, col) ==
    \E o \in UserIds \ {req[q].auth.id} : users[o][col] = req[q].body[col]

AtCollisionCheck(q) ==
    \/ req[q].op \in {"PatchUsername", "PatchEmail", "PatchPhone"} /\ req[q].pc = "authed"
    \/ /\ req[q].op = "PatchProfile" /\ req[q].pc = "authed"
       /\ ScopeProfile \in req[q].auth.scopes
    \/ req[q].op = "PostPrimaryEmail" /\ req[q].pc = "verified"

\* C2: a request that sets an identifier which another subject holds when the
\* request checks for a collision fails with the identifier-exists error and
\* writes nothing.
C2_CollisionRejected ==
    [][\A q \in Slots : \A col \in IdentifierColumns :
          (SetsIdentifier(q, col) /\ AtCollisionCheck(q) /\ HeldByOther(q, col)
              /\ Stepped(q))
          => /\ req'[q].pc = "done"
             /\ req'[q].err = "IdentifierExists"
             /\ users' = users]_vars

\* A request set a free identifier on S and completed; the next request set
\* the same value on S2, failed with the collision error and changed nothing.
C2_Witness ==
    \E q1, q2 \in Slots : \E col \in IdentifierColumns :
        /\ q1 # q2
        /\ SetsIdentifier(q1, col) /\ SetsIdentifier(q2, col)
        /\ req[q1].body[col] = req[q2].body[col]
        /\ req[q1].auth.id # req[q2].auth.id
        /\ Done(q1) /\ Committed(q1)
        /\ users[req[q1].auth.id][col] = req[q1].body[col]
        /\ Done(q2) /\ req[q2].err = "IdentifierExists"
        /\ users[req[q2].auth.id][col] # req[q2].body[col]

\* The request of slot q presents a verification record and committed its write.
CommittedWith(q, id) ==
    /\ req[q].op \in {"PostPassword", "PostPrimaryEmail"}
    /\ Committed(q)
    /\ \/ req[q].body.verificationRecordId = id
       \/ req[q].body.newIdentifierVerificationRecordId = id

\* C3: a verification record authorizes at most one successful mutation: no
\* two requests that present the same record both commit.
C3_RecordUsedOnce ==
    \A q1, q2 \in Slots : \A id \in DOMAIN verificationRecords :
        (CommittedWith(q1, id) /\ CommittedWith(q2, id)) => q1 = q2

SensitiveOps ==
    {"PatchPassword", "PostPassword", "PatchEmail", "PatchPhone", "LinkIdentity",
     "PostPrimaryEmail"}

\* The record the request names is the subject's own, verified and unconsumed.
PresentsValidRecord(q) ==
    /\ RecordFound(verificationRecords, req[q].auth.id, req[q].body.verificationRecordId)
    /\ IsVerified(verificationRecords[req[q].body.verificationRecordId])
    /\ ~verificationRecords[req[q].body.verificationRecordId].consumed

\* C4: a sensitive field (password, email, phone, identity) is written only by
\* a request that resolved a valid verification record of its subject.
C4_SensitiveWriteVerified ==
    \A q \in Slots :
        (req[q].op \in SensitiveOps /\ Committed(q)) => PresentsValidRecord(q)

\* The request of slot q takes the step that ends it.
Ends(q) == Stepped(q) /\ req'[q].pc = "done"

EmailScopes(q) == {ScopeProfile, ScopeEmail} \subseteq req[q].auth.scopes

\* The first record of q is the subject's own verified record, made by
\* password or by proving control of the subject's current email.
FirstRecordValid(q) ==
    LET id == req[q].body.verificationRecordId
        r == verificationRecords[id]
    IN  /\ id \in DOMAIN verificationRecords
        /\ r.userId = req[q].auth.id /\ r.verified /\ ~r.expired
        /\ r.type = "password" \/ r.target = users[req[q].auth.id].primaryEmail

\* The second record of q proves control of the email q sets.
SecondRecordValid(q) ==
    LET id == req[q].body.newIdentifierVerificationRecordId
        r == verificationRecords[id]
    IN  /\ id \in DOMAIN verificationRecords
        /\ r.userId = req[q].auth.id /\ r.verified /\ ~r.expired
        /\ r.type = "emailCode" /\ r.target = req[q].body.primaryEmail

\* C5: POST /profile/primary-email fails with auth.unauthorized without the
\* scopes, with verification_record.permission_denied on an invalid first
\* record, with verification_record.not_found on an invalid new-identifier
\* record, each time leaving the email alone; it succeeds only with the scopes
\* and both records, and then GET /profile shows the new email.
C5_PrimaryEmailGated ==
    [][\A q \in Slots :
          (req[q].op = "PostPrimaryEmail" /\ req[q].auth.id # Null /\ Stepped(q))
          => /\ (req[q].pc = "authed" /\ ~EmailScopes(q))
                    => req'[q].pc = "done" /\ req'[q].err = "auth.unauthorized"
             /\ (req[q].pc = "authed" /\ EmailScopes(q) /\ ~FirstRecordValid(q))
                    => /\ req'[q].pc = "done"
                       /\ req'[q].err = "verification_record.permission_denied"
             /\ (req[q].pc = "permitted" /\ ~SecondRecordValid(q))
                    => /\ req'[q].pc = "done"
                       /\ req'[q].err = "verification_record.not_found"
             /\ req'[q].err # Null => users' = users
             /\ (req'[q].pc = "done" /\ req'[q].err = Null)
                    => /\ EmailScopes(q) /\ SecondRecordValid(q)
                       /\ users'[req[q].auth.id].primaryEmail = req[q].body.primaryEmail
                       /\ GetScopedProfile(users', req[q].auth.scopes, req[q].auth.id).email
                              = req[q].body.primaryEmail]_vars

\* The email was updated with both records, and a GET /profile then shows it.
C5_Witness ==
    \E q1, q2 \in Slots :
        /\ req[q1].op = "PostPrimaryEmail" /\ Done(q1) /\ Committed(q1)
        /\ req[q1].status = 204
        /\ req[q2].op = "GetProfile" /\ Done(q2) /\ req[q2].err = Null
        /\ req[q2].auth.id = req[q1].auth.id
        /\ req[q2].resp.email = req[q1].body.primaryEmail

PasswordOps == {"PatchPassword", "PostPassword"}

\* The password q submits verifies against the hash the store holds now.
SamePassword(q) ==
    /\ req[q].auth.id \in UserIds
    /\ users[req[q].auth.id].passwordEncrypted # NoHash
    /\ Argon2Verify(req[q].body.password, users[req[q].auth.id].passwordEncrypted)

\* C6: a password change whose new password verifies against the stored hash
\* fails, and the stored hash and encryption method stay as they were.
C6_SamePasswordRejected ==
    [][\A q \in Slots :
          (req[q].op \in PasswordOps /\ SamePassword(q) /\ Ends(q))
          => /\ req'[q].err # Null
             /\ users' = users]_vars

DeleteColumn(q) == IF req[q].op = "DeleteEmail" THEN "primaryEmail" ELSE "primaryPhone"

NotExistsCode(q) ==
    IF req[q].op = "DeleteEmail" THEN "user.email_not_exists" ELSE "user.phone_not_exists"

\* C7: deleting an absent primary email (phone) fails with
\* user.email_not_exists (user.phone_not_exists), status 422, and changes no
\* user; deleting a present one sets that column to null and nothing else.
C7_DeleteAbsentRejected ==
    [][\A q \in Slots :
          (req[q].op \in {"DeleteEmail", "DeletePhone"} /\ Stepped(q))
          => LET id == req[q].auth.id
                 col == DeleteColumn(q)
             IN  /\ (req[q].pc = "authed" /\ users[id][col] = Null)
                        => /\ req'[q].pc = "done"
                           /\ req'[q].err = NotExistsCode(q)
                           /\ req'[q].status = 422
                           /\ users' = users
                 /\ (req[q].pc = "authed" /\ users[id][col] # Null)
                        => req'[q].err = Null /\ users' = users
                 /\ req[q].pc = "checked"
                        => /\ req'[q].pc = "done" /\ req'[q].err = Null
                           /\ users' = [users EXCEPT ![id][col] = Null]]_vars

\* One delete found its column absent and failed; another found its column
\* present and removed it.
C7_Witness ==
    \E q1, q2 \in Slots :
        /\ req[q1].op \in {"DeleteEmail", "DeletePhone"}
        /\ Done(q1) /\ req[q1].err = NotExistsCode(q1) /\ req[q1].status = 422
        /\ req[q2].op \in {"DeleteEmail", "DeletePhone"}
        /\ Done(q2) /\ Committed(q2)
        /\ users[req[q2].auth.id][DeleteColumn(q2)] = Null

\* C8: unlinking a target that is not linked fails with
\* user.identity_not_exists, status 404, and leaves the identities alone;
\* unlinking a linked target removes exactly the entry of that target.
C8_UnlinkAbsentRejected ==
    [][\A q \in Slots :
          (req[q].op = "UnlinkIdentity" /\ Stepped(q))
          => LET id == req[q].auth.id
                 target == req[q].body.target
             IN  /\ (req[q].pc = "authed" /\ target \notin DOMAIN users[id].identities)
                        => /\ req'[q].pc = "done"
                           /\ req'[q].err = "user.identity_not_exists"
                           /\ req'[q].status = 404
                           /\ users' = users
                 /\ (req[q].pc = "authed" /\ target \in DOMAIN users[id].identities)
                        => req'[q].err = Null /\ users' = users
                 /\ req[q].pc = "checked"
                        => /\ req'[q].pc = "done" /\ req'[q].err = Null
                           /\ DOMAIN users'[id].identities
                                  = (DOMAIN users[id].identities) \ {target}
                           /\ \A t \in DOMAIN users'[id].identities :
                                  users'[id].identities[t] = users[id].identities[t]
                           /\ \A o \in UserIds \ {id} : users'[o] = users[o]
                           /\ \A c \in Columns \ {"identities"} :
                                  users'[id][c] = users[id][c]]_vars

\* One unlink of a target never linked failed; another removed a linked target.
C8_Witness ==
    \E q1, q2 \in Slots :
        /\ req[q1].op = "UnlinkIdentity" /\ Done(q1)
        /\ req[q1].err = "user.identity_not_exists" /\ req[q1].status = 404
        /\ req[q2].op = "UnlinkIdentity" /\ Done(q2) /\ Committed(q2)
        /\ req[q2].body.target \notin DOMAIN users[req[q2].auth.id].identities

\* C9: a request without a subject id fails with auth.unauthorized at its
\* first step, before any lookup or write of the user store.
C9_NullSubjectUnauthorized ==
    [][\A q \in Slots :
          (req[q].auth.id = Null /\ Stepped(q))
          => /\ req[q].pc = "start"
             /\ req'[q].pc = "done"
             /\ req'[q].err = "auth.unauthorized"
             /\ req'[q].phases = <<>>
             /\ users' = users]_vars

\* Requests without a subject were rejected on a session route and on a
\* /profile route.
C9_Witness ==
    \E q1, q2 \in Slots :
        /\ req[q1].op \in SessionOps /\ req[q1].auth.id = Null
        /\ Done(q1) /\ req[q1].err = "auth.unauthorized"
        /\ req[q2].op \in ProfileOps /\ req[q2].auth.id = Null
        /\ Done(q2) /\ req[q2].err = "auth.unauthorized"

MutatingOps == Ops \ {"GetSessionProfile", "GetProfile"}

\* C10: a mutating call that succeeds has emitted exactly one User.Data.Updated
\* event, and one that fails has emitted none.
C10_OneEventPerMutation ==
    \A q \in Slots :
        (req[q].op \in MutatingOps /\ Done(q))
        => IF req[q].err = Null
           THEN Len(req[q].hooks) = 1 /\ req[q].hooks[1].event = "User.Data.Updated"
           ELSE req[q].hooks = <<>>

\* The step of q is its write: it appends the phase Committed.
Commits(q) ==
    /\ Len(req'[q].phases) = Len(req[q].phases) + 1
    /\ req'[q].phases[Len(req'[q].phases)] = "Committed"

PlainColumns == {"name", "avatar", "customData", "username", "primaryEmail",
                 "primaryPhone", "nickname"}

\* After the step, the row of the subject of q holds every field q targets.
AllApplied(q) ==
    LET b == req[q].body
        row == users'[req[q].auth.id]
    IN  /\ \A c \in PlainColumns : b[c] # Undefined => row[c] = b[c]
        /\ (b.address # Undefined /\ ScopeAddress \in req[q].auth.scopes)
           => row.address = b.address
        /\ b.password # Undefined
           => /\ Argon2Verify(b.password, row.passwordEncrypted)
              /\ row.passwordEncryptionMethod = "Argon2i"
        /\ req[q].op \in {"DeleteEmail", "DeletePhone"} => row[DeleteColumn(q)] = Null
        /\ req[q].op = "LinkIdentity"
           => /\ Has(row.identities, b.target)
              /\ row.identities[b.target] = b.socialId
        /\ req[q].op = "UnlinkIdentity" => ~Has(row.identities, b.target)

PhaseRank(phase) ==
    CASE phase = "Authenticated" -> 1
      [] phase = "Verified" -> 2
      [] phase \in {"CollisionChecked", "Checked", "NoIdentifier"} -> 3
      [] phase = "Committed" -> 4

PassedPhase(q, phase) == \E i \in 1..Len(req[q].phases) : req[q].phases[i] = phase

\* The phases q has passed are in the fixed order, the commit is the last of
\* them, and a request that has committed has not failed.
PhasesInOrder(q) ==
    LET p == req[q].phases
    IN  /\ p # <<>> => p[1] = "Authenticated"
        /\ \A i, j \in 1..Len(p) : i < j => PhaseRank(p[i]) <= PhaseRank(p[j])
        /\ \A i \in 1..Len(p) :
              p[i] = "Committed" => (i = Len(p) /\ req[q].err = Null)

\* C12: the phases of a mutation request are in the order authenticate,
\* verify, collision-check, commit, the commit is its last phase, and a request
\* that has committed has not failed and has passed each earlier state: the
\* verification when it changes a sensitive field, and the collision check,
\* after it, when it sets an identifier.
C12_FixedOrder ==
    \A q \in Slots :
        /\ PhasesInOrder(q)
        /\ Committed(q)
           => /\ req[q].op \in SensitiveOps => PassedPhase(q, "Verified")
              /\ \A col \in IdentifierColumns :
                    SetsIdentifier(q, col) => PassedPhase(q, "CollisionChecked")

\* C13: the collision check of a request fails with the identifier-exists
\* error only when a user other than its subject holds a value it sets; a
\* subject that sets a username, email or phone to the value it holds itself
\* is not rejected with that error.
C13_OwnValueNotRejected ==
    [][\A q \in Slots :
          (Stepped(q) /\ AtCollisionCheck(q) /\ req'[q].err = "IdentifierExists")
          => \E col \in IdentifierColumns :
                SetsIdentifier(q, col) /\ HeldByOther(q, col)]_vars

\* C14: PATCH /profile by a caller without the profile scope ends with
\* auth.unauthorized and writes nothing; the write of a caller with the
\* profile scope and without the address scope leaves the stored address as it
\* was and stores the other profile fields of the body.
C14_ScopedPatch ==
    [][\A q \in Slots :
        (Stepped(q) /\ req[q].op = "PatchProfile")
        => /\ (req[q].pc = "authed" /\ ScopeProfile \notin req[q].auth.scopes)
              => /\ req'[q].pc = "done"
                 /\ req'[q].err = "auth.unauthorized"
                 /\ users' = users
           /\ (Commits(q) /\ ScopeAddress \notin req[q].auth.scopes)
              => /\ ScopeProfile \in req[q].auth.scopes
                 /\ users'[req[q].auth.id].address = users[req[q].auth.id].address
                 /\ \A c \in {"name", "avatar", "username", "nickname"} :
                       req[q].body[c] # Undefined
                       => users'[req[q].auth.id][c] = req[q].body[c]]_vars

\* A caller with the profile scope only sent a nickname and an address: the
\* nickname is stored and the address it had before is still there. Another
\* caller, without the profile scope, was rejected.
C14_Witness ==
    \E q, r \in Slots :
        /\ Done(q) /\ req[q].op = "PatchProfile" /\ Committed(q)
        /\ req[q].auth.scopes = {ScopeProfile}
        /\ req[q].body.address = "1 Main St"
        /\ users[req[q].auth.id].address = "9 Old Rd"
        /\ users[req[q].auth.id].nickname = req[q].body.nickname
        /\ Done(r) /\ req[r].op = "PatchProfile"
        /\ ScopeProfile \notin req[r].auth.scopes /\ req[r].auth.id # Null
        /\ req[r].err = "auth.unauthorized" /\ ~Committed(r)

\* C15: when two link requests of one subject for two different targets have
\* both completed, the entry each of them wrote is in the identities map of
\* the subject: the write of one has not undone the write of the other.
C15_NoLostLink ==
    \A q, r \in Slots :
        (/\ q # r
         /\ Done(q) /\ req[q].op = "LinkIdentity" /\ Committed(q)
         /\ Done(r) /\ req[r].op = "LinkIdentity" /\ Committed(r)
         /\ req[q].auth.id = req[r].auth.id
         /\ req[q].body.target # req[r].body.target)
        => LET identities == users[req[q].auth.id].identities
           IN  /\ Has(identities, req[q].body.target)
               /\ identities[req[q].body.target] = req[q].body.socialId
               /\ Has(identities, req[r].body.target)
               /\ identities[req[r].body.target] = req[r].body.socialId

====
